---- MODULE Spec2Model ----
(***************************************************************************)
(* Model of the transactional persistence and synchronization layer:       *)
(*   - server/lib/mysql.ts       storage selection and initialization      *)
(*   - server/store/accounting.ts ledger operations, installment schedule  *)
(*   - the due-installment sweep (scheduleDueInstallmentChecks)            *)
(*   - the client offline mutation queue (lib/offline)                     *)
(* The specifications share the variables: Spec (project ledger and        *)
(* sweep), SpecInventory (inventory ledger), SpecISG (schedule generator   *)
(* as a pure function), SpecOMQ, SpecResumed and SpecOffline (offline      *)
(* queue and offline writes), SpecInit (storage initialization and         *)
(* seeding), SpecSweep / FairSweep (sweep scheduler), SpecSqlite (the      *)
(* embedded backend's shared handle), SpecRestart (ledger across process   *)
(* restarts), SpecConcurrent (inventory operations in flight together)     *)
(* and SpecDrain / FairDrain (drain passes over an unbounded run).         *)
(***************************************************************************)
EXTENDS Integers, Sequences, FiniteSets, TLC

\* ------------------------------------------------------------------ bounds
MaxCalls == 3        \* ledger operations invoked in one behaviour
MaxQty == 2          \* largest quantity, unit price and sale price of an input
MaxFaults == 1       \* statements, commits or queries that throw in one behaviour
MaxScheduleMonths == 6  \* largest month count given to the schedule generator (SpecISG)
MaxMutations == 2    \* writes attempted while offline in one behaviour (SpecOMQ)
MaxPasses == 3       \* invocations of processQueue in one behaviour (SpecOMQ)
MaxCallers == 2      \* callers of initializeMysql in one process (SpecInit)
MaxRestarts == 2     \* process restarts in one behaviour (SpecInit)
MaxConnections == 2  \* scoped connections taken from the embedded pool (SpecSqlite)
MaxStatements == 3   \* writing statements run in one behaviour (SpecSqlite)
MaxConcurrent == 2   \* inventory operations in flight in one behaviour (SpecConcurrent)
MaxRuns == 3         \* runs of the due-installment sweep in one behaviour (SpecSweep)
MaxOverlap == 2      \* drain passes in flight at one time (SpecDrain)
MaxRetriesLeft == 1  \* failed attempts the queued mutations are short of the ceiling at the start (SpecDrain)

\* program constants of the offline queue
RetryCeiling == 5
BackoffBase == 1000
BackoffCap == 30000

NoSuchId == 0        \* an id that no entity ever gets (ids start at 1)

VARIABLES
  backend,               \* "mysql" (credentials configured) | "sqlite" | "none" (sqlite file cannot be opened)
  initializationPromise, \* "null" | "true" | "false": memoized outcome of initializeMysql
  fallbackStore,         \* the module-level in-memory maps
  db,                    \* committed rows of the relational backend
  pendingInserts,        \* installment rows whose fire-and-forget INSERT has not settled yet
  nextId,                \* source of crypto.randomUUID(): a fresh id per call
  calls,                 \* number of ledger operations invoked so far
  last,                  \* the last operation: its input and what the caller got back
  planOf,                \* sale id -> month count of the financing plan it was created with
  faults,                \* failures injected so far (statements, commits or queries that threw)
  usersTable,            \* rows of the backend's users table (they outlive the process)
  process,               \* this server process: runs of the initialization body, callers
                         \* awaiting initializationPromise, the outcome each caller got, restarts
  scheduler,             \* scheduleDueInstallmentChecks: its interval timer and its runs
  sqlite,                \* the one better-sqlite3 handle and the connection objects sharing it
  mysqlReachable,        \* the networked store accepts connections
  inflight,              \* inventory operations running on the networked store, each
                         \* in its own connection and transaction, and the row lock
  schedule,              \* SpecISG: the generator's input and the list it returned
  online,                \* navigator.onLine
  started,               \* startOfflineSync has installed the listener and the interval
  queue,                 \* the list stored under QUEUE_KEY
  cache,                 \* the entry stored under cacheKeyFor("/api/admin/users"), if present
  passes,                \* running invocations of processQueue: pass id -> its locals and position
  enqueuing,             \* offline write calls in progress: before setCached, or in enqueue
                         \* between its loadQueue and its saveQueue
  requests,              \* mutation id -> requests sent for it, answered 2xx, failed, answered 4xx
  launched,              \* invocations of processQueue so far
  created                \* mutations created so far

hostVars == <<usersTable, process, scheduler, sqlite, mysqlReachable, inflight>>

ledgerVars == <<backend, initializationPromise, fallbackStore, db, pendingInserts,
                nextId, calls, last, planOf, faults, hostVars>>

omqVars == <<online, started, queue, cache, passes, enqueuing, requests, launched, created>>

vars == <<ledgerVars, schedule, omqVars>>

\* ------------------------------------------------------------ small helpers
Max(a, b) == IF a >= b THEN a ELSE b
Min(a, b) == IF a <= b THEN a ELSE b
Has(table, id) == \E r \in table : r.id = id
Row(table, id) == CHOOSE r \in table : r.id = id
Put(table, row) == {r \in table : r.id # row.id} \cup {row}

EmptyFallbackStore ==
  [transactions |-> {}, items |-> {}, movements |-> {}, projects |-> {},
   costs |-> {}, sales |-> {}, installments |-> {}]

EmptyDb ==
  [transactions |-> {}, items |-> {}, movements |-> {}, projects |-> {},
   costs |-> {}, sales |-> {}, installments |-> {}, reminders |-> {}]

\* ------------------------------------------------ storage selection (mysql.ts)
hasMysqlConfig == backend = "mysql"

\* getMysqlPool(): a pool object whenever credentials are configured or the
\* sqlite file can be opened; it does not look at the initialization outcome.
getMysqlPool == backend # "none"

\* getInitializedMysqlPool(): null unless initialization resolved true.
getInitializedMysqlPool == initializationPromise = "true" /\ getMysqlPool

\* the values of the host variables where they play no part
RootAccount == [id |-> <<0, 1>>, username |-> "root", role |-> "manager"]
NoProcess == [runs |-> 0, awaiting |-> {}, observed |-> <<>>, restarts |-> 0]
ArmedScheduler == [timer |-> "armed", runs |-> 0, failedRuns |-> 0, lastRunThrew |-> FALSE]
NoInflight == [txns |-> <<>>, rowLock |-> 0, start |-> 0]
ClosedHandle == [open |-> FALSE, owner |-> 0, inTransaction |-> {}, uncommitted |-> {},
                 committed |-> {}, statements |-> 0, error |-> "none"]

\* ------------------------------------------------------------- ledger helpers
\* a failure (a statement, commit or query that throws) may be injected while
\* the fault budget lasts, and only where a backend is involved
MayFail(onBackend) == IF onBackend /\ faults < MaxFaults THEN BOOLEAN ELSE {FALSE}

\* what the caller observes of a call that threw
Throw(op, input, status) ==
  /\ last' = [op |-> op, status |-> status, in |-> input, out |-> <<>>]
  /\ UNCHANGED <<fallbackStore, db, pendingInserts, nextId, planOf>>

Return(op, input, out) ==
  last' = [op |-> op, status |-> "ok", in |-> input, out |-> out]

movementTotal(qty, unitPrice) == qty * unitPrice

\* mutant of receiptQuantity: the quantity is overwritten instead of incremented
receiptQuantity_overwrite(quantity, qty) == qty

\* quantity = quantity + ?  (item.quantity + input.qty in memory)
receiptQuantity(quantity, qty) == quantity + qty

\* mutant of nextQuantity: the floor at zero is missing
nextQuantity_unclamped(currentQty, qty) == currentQty - qty

\* Math.max(0, currentQty - input.qty)
nextQuantity(currentQty, qty) == Max(0, currentQty - qty)

\* createTransactionFallback / insertTransactionDb: the stored transaction
newTransaction(id, type, amount) == [id |-> id, type |-> type, amount |-> amount]

\* createInventoryItem
createInventoryItem(input, fail) ==
  LET item == [id |-> nextId, quantity |-> input.quantity] IN
  IF ~getInitializedMysqlPool
  THEN /\ fallbackStore' = [fallbackStore EXCEPT !.items = @ \cup {item}]
       /\ nextId' = nextId + 1
       /\ Return("createInventoryItem", input, item)
       /\ UNCHANGED <<db, pendingInserts, planOf>>
  ELSE IF fail
  THEN Throw("createInventoryItem", input, "error")
  ELSE /\ db' = [db EXCEPT !.items = @ \cup {item}]
       /\ nextId' = nextId + 1
       /\ Return("createInventoryItem", input, item)
       /\ UNCHANGED <<fallbackStore, pendingInserts, planOf>>

newQuantity(kind, quantity, qty) ==
  IF kind = "in" THEN receiptQuantity(quantity, qty) ELSE nextQuantity(quantity, qty)

\* recordInventoryReceipt / recordInventoryIssue share their shape: the item
\* is read, its quantity rewritten, one movement and one expense transaction
\* are inserted; on the backend all of it inside one transaction.
recordInventoryMovement(op, kind, input, fail) ==
  LET total == movementTotal(input.qty, input.unitPrice)
      movement == [id |-> nextId, itemId |-> input.itemId, kind |-> kind,
                   qty |-> input.qty, unitPrice |-> input.unitPrice, total |-> total]
      transaction == newTransaction(nextId + 1, "expense", total)
  IN
  IF ~getInitializedMysqlPool
  THEN IF ~Has(fallbackStore.items, input.itemId)
       THEN Throw(op, input, "not_found")
       ELSE LET item == Row(fallbackStore.items, input.itemId)
                updated == [item EXCEPT !.quantity = newQuantity(kind, item.quantity, input.qty)]
            IN /\ fallbackStore' = [fallbackStore EXCEPT
                                      !.items = Put(@, updated),
                                      !.movements = @ \cup {movement},
                                      !.transactions = @ \cup {transaction}]
               /\ nextId' = nextId + 2
               /\ Return(op, input, [item |-> updated, movement |-> movement,
                                     transaction |-> transaction])
               /\ UNCHANGED <<db, pendingInserts, planOf>>
  ELSE IF ~Has(db.items, input.itemId)
       THEN Throw(op, input, "not_found")        \* getItemRowForUpdate throws, rollback
       ELSE IF fail
       THEN Throw(op, input, "error")             \* a statement or the commit throws, rollback
       ELSE LET base == Row(db.items, input.itemId)
                updated == [base EXCEPT !.quantity = newQuantity(kind, base.quantity, input.qty)]
            IN /\ db' = [db EXCEPT
                           !.items = Put(@, updated),
                           !.movements = @ \cup {movement},
                           !.transactions = @ \cup {transaction}]
               /\ nextId' = nextId + 2
               /\ Return(op, input, [item |-> updated, movement |-> movement,
                                     transaction |-> transaction])
               /\ UNCHANGED <<fallbackStore, pendingInserts, planOf>>

recordInventoryReceipt(input, fail) ==
  recordInventoryMovement("recordInventoryReceipt", "in", input, fail)

recordInventoryIssue(input, fail) ==
  recordInventoryMovement("recordInventoryIssue", "out", input, fail)

\* createProject
createProject(input, fail) ==
  LET project == [id |-> nextId] IN
  IF ~getInitializedMysqlPool
  THEN /\ fallbackStore' = [fallbackStore EXCEPT !.projects = @ \cup {project}]
       /\ nextId' = nextId + 1
       /\ Return("createProject", input, project)
       /\ UNCHANGED <<db, pendingInserts, planOf>>
  ELSE IF fail
  THEN Throw("createProject", input, "error")
  ELSE /\ db' = [db EXCEPT !.projects = @ \cup {project}]
       /\ nextId' = nextId + 1
       /\ Return("createProject", input, project)
       /\ UNCHANGED <<fallbackStore, pendingInserts, planOf>>

\* createProjectCost: one cost row and one expense transaction; the in-memory
\* path does not look the project up, the backend enforces the foreign key.
createProjectCost(input, fail) ==
  LET cost == [id |-> nextId, projectId |-> input.projectId, amount |-> input.amount]
      transaction == newTransaction(nextId + 1, "expense", input.amount)
      out == [cost |-> cost, transaction |-> transaction]
  IN
  IF ~getInitializedMysqlPool
  THEN /\ fallbackStore' = [fallbackStore EXCEPT
                              !.costs = @ \cup {cost},
                              !.transactions = @ \cup {transaction}]
       /\ nextId' = nextId + 2
       /\ Return("createProjectCost", input, out)
       /\ UNCHANGED <<db, pendingInserts, planOf>>
  ELSE IF fail \/ ~Has(db.projects, input.projectId)
  THEN Throw("createProjectCost", input, "error")
  ELSE /\ db' = [db EXCEPT
                   !.costs = @ \cup {cost},
                   !.transactions = @ \cup {transaction}]
       /\ nextId' = nextId + 2
       /\ Return("createProjectCost", input, out)
       /\ UNCHANGED <<fallbackStore, pendingInserts, planOf>>

\* ------------------------------------------- installment schedule generator
\* dates are ISO strings yyyy-mm-dd, held as the number yyyymmdd (same order)
IsLeap(y) == (y % 4 = 0 /\ y % 100 # 0) \/ y % 400 = 0

\* days of month index mo (0 = January) of year y
DaysInMonth(y, mo) ==
  IF mo = 1 THEN (IF IsLeap(y) THEN 29 ELSE 28)
  ELSE IF mo \in {3, 5, 8, 10} THEN 30 ELSE 31

\* new Date(y, mo, day): a month index past December carries into the year and
\* a day past the end of the month carries into the following month(s)
RECURSIVE JsDate(_, _, _)
JsDate(y, mo, day) ==
  IF mo > 11 THEN JsDate(y + 1, mo - 12, day)
  ELSE IF day > DaysInMonth(y, mo) THEN JsDate(y, mo + 1, day - DaysInMonth(y, mo))
  ELSE [year |-> y, month |-> mo, date |-> day]

addMonthsISO(start, months) ==
  LET y == start \div 10000
      m == (start \div 100) % 100
      d0 == start % 100
      d == IF d0 = 0 THEN 1 ELSE d0
      date == JsDate(y, m - 1 + months, d)
      yyyy == date.year
      dd == Min(d, DaysInMonth(yyyy, date.month))
  IN yyyy * 10000 + (date.month + 1) * 100 + dd

\* list.sort by dueDate ascending (stable): insertion into a sorted prefix
RECURSIVE SortByDueDate(_)
SortByDueDate(list) ==
  IF Len(list) <= 1 THEN list
  ELSE LET init == SortByDueDate(SubSeq(list, 1, Len(list) - 1))
           x == list[Len(list)]
           k == Cardinality({j \in 1..Len(init) : init[j].dueDate <= x.dueDate})
       IN SubSeq(init, 1, k) \o <<x>> \o SubSeq(init, k + 1, Len(init))

\* createInstallmentsForSale: the returned list; ids are firstId, firstId+1, ...
createInstallmentsForSale(params, firstId) ==
  SortByDueDate(
    [i \in 1..params.months |->
       [id |-> firstId + (i - 1),
        projectId |-> params.projectId,
        saleId |-> params.saleId,
        amount |-> params.monthlyAmount,
        dueDate |-> addMonthsISO(params.firstDueDate, i - 1),
        paid |-> FALSE,
        paidAt |-> 0]])

Range(seq) == {seq[i] : i \in DOMAIN seq}

\* the foreign keys of project_installments
InstallmentParentsExist(inst, sales, projects) ==
  Has(sales, inst.saleId) /\ Has(projects, inst.projectId)

\* -------------------------------------------------------------- project sale
hasPlan(input) == input.monthlyAmount # 0 /\ input.months # 0 /\ input.firstDueDate # 0

\* mutant of immediateAmount: the full price is booked whatever the plan
immediateAmount_price(input) == input.price

immediateAmount(input) ==
  IF hasPlan(input) THEN Max(0, input.downPayment) ELSE input.price

\* createProjectSale.  failAt: "none" | "early" (the sale or transaction insert
\* throws) | "commit" (conn.commit() throws).  persisted: the installments whose
\* INSERT does not throw when it runs inside the open sqlite transaction.
createProjectSale(input, failAt, persisted) ==
  LET sale == [id |-> nextId, projectId |-> input.projectId, price |-> input.price]
      transaction == newTransaction(nextId + 1, "revenue", immediateAmount(input))
      list == IF hasPlan(input)
              THEN createInstallmentsForSale(
                     [projectId |-> input.projectId, saleId |-> sale.id,
                      monthlyAmount |-> input.monthlyAmount, months |-> input.months,
                      firstDueDate |-> input.firstDueDate], nextId + 2)
              ELSE <<>>
      installments == Range(list)
      out == [sale |-> sale, transaction |-> transaction, installments |-> list]
      used == 2 + Len(list)
      plan == IF hasPlan(input) THEN input.months ELSE 0
  IN
  IF ~getInitializedMysqlPool
  THEN \* in-memory path; the fire-and-forget INSERTs are still issued when a pool exists
       /\ fallbackStore' = [fallbackStore EXCEPT
                              !.sales = @ \cup {sale},
                              !.transactions = @ \cup {transaction},
                              !.installments = @ \cup installments]
       /\ pendingInserts' = IF hasMysqlConfig THEN pendingInserts \cup installments
                            ELSE pendingInserts
       /\ db' = IF getMysqlPool /\ ~hasMysqlConfig
                THEN [db EXCEPT !.installments = @ \cup
                        {i \in installments \cap persisted :
                           InstallmentParentsExist(i, db.sales, db.projects)}]
                ELSE db
       /\ nextId' = nextId + used
       /\ planOf' = (sale.id :> plan) @@ planOf
       /\ Return("createProjectSale", input, out)
  ELSE IF failAt = "early" \/ ~Has(db.projects, input.projectId)
  THEN Throw("createProjectSale", input, "error")
  ELSE \* createInstallmentsForSale has run: fallbackStore and the INSERTs are out
       /\ fallbackStore' = [fallbackStore EXCEPT !.installments = @ \cup installments]
       /\ pendingInserts' = IF hasMysqlConfig THEN pendingInserts \cup installments
                            ELSE pendingInserts
       /\ nextId' = nextId + used
       /\ IF failAt = "commit"
          THEN /\ db' = db                        \* rollback
               /\ planOf' = planOf
               /\ last' = [op |-> "createProjectSale", status |-> "error",
                           in |-> input, out |-> <<>>]
          ELSE /\ db' = [db EXCEPT
                           !.sales = @ \cup {sale},
                           !.transactions = @ \cup {transaction},
                           !.installments = @ \cup
                              (IF hasMysqlConfig THEN {} ELSE installments \cap persisted)]
               /\ planOf' = (sale.id :> plan) @@ planOf
               /\ Return("createProjectSale", input, out)

\* One fire-and-forget INSERT of the networked backend settles: the row is
\* stored when its parents are committed and the statement does not throw;
\* otherwise the error is logged and dropped.
SettleInstallmentInsert ==
  /\ pendingInserts # {}
  /\ LET inst == CHOOSE i \in pendingInserts : \A j \in pendingInserts : i.id <= j.id IN
     /\ pendingInserts' = pendingInserts \ {inst}
     /\ IF InstallmentParentsExist(inst, db.sales, db.projects)
        THEN \E throws \in MayFail(TRUE) :
               /\ db' = IF throws THEN db ELSE [db EXCEPT !.installments = @ \cup {inst}]
               /\ faults' = IF throws THEN faults + 1 ELSE faults
        ELSE db' = db /\ faults' = faults          \* foreign key violation
  /\ UNCHANGED <<backend, initializationPromise, fallbackStore, nextId, calls, last, planOf,
                 hostVars, schedule, omqVars>>

\* ------------------------------------------------------------ payInstallment
\* mutant of settle: a repeated payment stamps paidAt again
settle_restamp(inst, date) == [inst EXCEPT !.paid = TRUE, !.paidAt = date]

\* the installment as payInstallment stores it
settle(inst, date) ==
  IF inst.paid THEN inst ELSE [inst EXCEPT !.paid = TRUE, !.paidAt = date]

\* createTransaction: in memory, or one INSERT on the pool (which may throw)
payInstallment(params, fail) ==
  IF ~Has(fallbackStore.installments, params.id)
  THEN Throw("payInstallment", params, "not_found")
  ELSE LET inst == Row(fallbackStore.installments, params.id)
           updated == settle(inst, params.date)
           transaction == newTransaction(nextId, "revenue", inst.amount)
           out == [installment |-> updated, transaction |-> transaction]
       IN /\ UNCHANGED <<pendingInserts, planOf>>
          /\ IF ~getInitializedMysqlPool
             THEN /\ fallbackStore' = [fallbackStore EXCEPT
                                         !.installments = Put(@, updated),
                                         !.transactions = @ \cup {transaction}]
                  /\ db' = db
                  /\ nextId' = nextId + 1
                  /\ Return("payInstallment", params, out)
             ELSE /\ fallbackStore' = [fallbackStore EXCEPT !.installments = Put(@, updated)]
                  /\ IF fail
                     THEN /\ db' = db
                          /\ nextId' = nextId
                          /\ last' = [op |-> "payInstallment", status |-> "error",
                                      in |-> params, out |-> <<>>]
                     ELSE /\ db' = [db EXCEPT !.transactions = @ \cup {transaction}]
                          /\ nextId' = nextId + 1
                          /\ Return("payInstallment", params, out)

\* ------------------------------------------------------------- deleteProject
\* ON DELETE CASCADE: project -> costs, sales, installments -> reminders
cascadeDeleteProject(d, id) ==
  LET gone == {i \in d.installments : i.projectId = id \/
                 \E s \in d.sales : s.projectId = id /\ s.id = i.saleId}
  IN [d EXCEPT
        !.projects = {p \in @ : p.id # id},
        !.costs = {c \in @ : c.projectId # id},
        !.sales = {s \in @ : s.projectId # id},
        !.installments = @ \ gone,
        !.reminders = {r \in @ : ~\E i \in gone : i.id = r.installmentId}]

\* the in-memory path removes the project, its costs and its sales
fallbackDeleteProject(store, id) ==
  [store EXCEPT
     !.projects = {p \in @ : p.id # id},
     !.costs = {c \in @ : c.projectId # id},
     !.sales = {s \in @ : s.projectId # id}]

deleteProject(id, fail) ==
  IF ~getInitializedMysqlPool
  THEN IF ~Has(fallbackStore.projects, id)
       THEN Throw("deleteProject", [id |-> id], "not_found")
       ELSE /\ fallbackStore' = fallbackDeleteProject(fallbackStore, id)
            /\ Return("deleteProject", [id |-> id], <<>>)
            /\ UNCHANGED <<db, pendingInserts, nextId, planOf>>
  ELSE IF ~Has(db.projects, id)
       THEN Throw("deleteProject", [id |-> id], "not_found")
       ELSE IF fail
       THEN Throw("deleteProject", [id |-> id], "error")
       ELSE /\ db' = cascadeDeleteProject(db, id)
            /\ Return("deleteProject", [id |-> id], <<>>)
            /\ UNCHANGED <<fallbackStore, pendingInserts, nextId, planOf>>

\* deleteInventoryItem(id): Map.delete of the item and of its movements in
\* memory; one DELETE on the backend (movements go by ON DELETE CASCADE).
\* Neither branch looks at whether a row was there.
deleteInventoryItem(id, fail) ==
  IF ~getInitializedMysqlPool
  THEN /\ fallbackStore' = [fallbackStore EXCEPT
                              !.items = {r \in @ : r.id # id},
                              !.movements = {m \in @ : m.itemId # id}]
       /\ Return("deleteInventoryItem", [id |-> id], <<>>)
       /\ UNCHANGED <<db, pendingInserts, nextId, planOf>>
  ELSE IF fail
  THEN Throw("deleteInventoryItem", [id |-> id], "error")
  ELSE /\ db' = [db EXCEPT
                   !.items = {r \in @ : r.id # id},
                   !.movements = {m \in @ : m.itemId # id}]
       /\ Return("deleteInventoryItem", [id |-> id], <<>>)
       /\ UNCHANGED <<fallbackStore, pendingInserts, nextId, planOf>>

\* ------------------------------------------------------- reads and the sweep
dueIn(installments, date) == {i \in installments : ~i.paid /\ i.dueDate <= date}

\* getDueInstallments(asOfDate); queryFails: the SELECT throws
getDueInstallments(date, queryFails) ==
  IF ~getMysqlPool THEN dueIn(fallbackStore.installments, date)
  ELSE IF queryFails THEN dueIn(fallbackStore.installments, date)
  ELSE dueIn(db.installments, date)

getProjectInstallments(projectId) ==
  {i \in fallbackStore.installments : i.projectId = projectId}

\* getProjectSnapshot(id): <<>> stands for null; queryFails: the installment SELECT throws
getProjectSnapshot(id, queryFails) ==
  IF ~getInitializedMysqlPool
  THEN IF ~Has(fallbackStore.projects, id) THEN <<>>
       ELSE [project |-> Row(fallbackStore.projects, id),
             costs |-> {c \in fallbackStore.costs : c.projectId = id},
             sales |-> {s \in fallbackStore.sales : s.projectId = id},
             installments |-> getProjectInstallments(id)]
  ELSE IF ~Has(db.projects, id) THEN <<>>
       ELSE [project |-> Row(db.projects, id),
             costs |-> {c \in db.costs : c.projectId = id},
             sales |-> {s \in db.sales : s.projectId = id},
             installments |-> IF queryFails THEN getProjectInstallments(id)
                              ELSE {i \in db.installments : i.projectId = id}]

getAccountingSnapshot ==
  LET s == IF getInitializedMysqlPool THEN db ELSE fallbackStore IN
  [transactions |-> s.transactions, items |-> s.items, movements |-> s.movements,
   projects |-> s.projects, costs |-> s.costs, sales |-> s.sales]

\* createInstallmentReminder for every element of list; failing: the
\* installments whose reminder INSERT throws (caught and logged)
recordReminders(list, failing, stamp) ==
  IF ~getMysqlPool THEN db.reminders          \* only a console line
  ELSE db.reminders \cup
       {[id |-> <<stamp, i.id>>, installmentId |-> i.id] :
          i \in {x \in list : x \notin failing /\ Has(db.installments, x.id)}}

\* runOnce of scheduleDueInstallmentChecks
runOnce(today, queryFails, failing) ==
  LET list == getDueInstallments(today, queryFails) IN
  /\ failing \subseteq list
  /\ db' = [db EXCEPT !.reminders = recordReminders(list, failing, nextId)]
  /\ nextId' = nextId + 1
  /\ last' = [op |-> "runOnce", status |-> "ok", in |-> [today |-> today],
              out |-> {i.id : i \in list}]
  /\ UNCHANGED <<fallbackStore, pendingInserts, planOf>>

\* ------------------------------------------------------------------- inputs
ActiveItems == IF getInitializedMysqlPool THEN db.items ELSE fallbackStore.items
UnitPrices == {MaxQty}
MovementInputs ==
  [itemId : {r.id : r \in ActiveItems}, qty : 1..MaxQty, unitPrice : UnitPrices]
  \cup [itemId : {NoSuchId}, qty : {1}, unitPrice : {1}]

ActiveProjects == IF getInitializedMysqlPool THEN db.projects ELSE fallbackStore.projects
ProjectIds == {r.id : r \in ActiveProjects}
FirstDueDates == {20240131}
PlanMonths == {1, 2}
SaleInputs ==
  [projectId : ProjectIds, price : {MaxQty}, downPayment : {0}, monthlyAmount : {0},
   months : {0}, firstDueDate : {0}]
  \cup
  [projectId : ProjectIds, price : {MaxQty}, downPayment : {0, 1}, monthlyAmount : {1},
   months : PlanMonths, firstDueDate : FirstDueDates]
InstallmentIdInputs ==
  {i.id : i \in db.installments \cup fallbackStore.installments} \cup {NoSuchId}
PayDates == {20240201, 20240401}
SweepDates == {20240201}

\* a route handler (or the sweep timer) invoking one store operation
CallGuard == initializationPromise # "null" /\ calls < MaxCalls

CallFrame(faulty) ==
  /\ calls' = calls + 1
  /\ faults' = IF faulty THEN faults + 1 ELSE faults
  /\ UNCHANGED <<backend, initializationPromise, hostVars, schedule, omqVars>>

CreateInventoryItem ==
  /\ CallGuard
  /\ \E q \in {0, MaxQty}, fail \in MayFail(getInitializedMysqlPool) :
       createInventoryItem([quantity |-> q], fail) /\ CallFrame(fail)

RecordInventoryReceipt ==
  /\ CallGuard
  /\ \E input \in MovementInputs, fail \in MayFail(getInitializedMysqlPool) :
       recordInventoryReceipt(input, fail) /\ CallFrame(fail)

RecordInventoryIssue ==
  /\ CallGuard
  /\ \E input \in MovementInputs, fail \in MayFail(getInitializedMysqlPool) :
       recordInventoryIssue(input, fail) /\ CallFrame(fail)

DeleteInventoryItem ==
  /\ CallGuard
  /\ \E id \in {r.id : r \in ActiveItems} \cup {NoSuchId},
        fail \in MayFail(getInitializedMysqlPool) :
       deleteInventoryItem(id, fail) /\ CallFrame(fail)

CreateProject ==
  /\ CallGuard
  /\ \E fail \in MayFail(getInitializedMysqlPool) :
       createProject(<<>>, fail) /\ CallFrame(fail)

CreateProjectCost ==
  /\ CallGuard
  /\ \E p \in ProjectIds, fail \in MayFail(getInitializedMysqlPool) :
       createProjectCost([projectId |-> p, amount |-> 1], fail) /\ CallFrame(fail)

\* the installments createProjectSale(input) is about to generate
PlannedInstallments(input) ==
  IF hasPlan(input)
  THEN Range(createInstallmentsForSale(
               [projectId |-> input.projectId, saleId |-> nextId,
                monthlyAmount |-> input.monthlyAmount, months |-> input.months,
                firstDueDate |-> input.firstDueDate], nextId + 2))
  ELSE {}

CreateProjectSale ==
  /\ CallGuard
  /\ \E input \in SaleInputs :
       \/ createProjectSale(input, "none", PlannedInstallments(input)) /\ CallFrame(FALSE)
       \/ /\ getInitializedMysqlPool /\ faults < MaxFaults
          /\ \E failAt \in {"early", "commit"} :
               createProjectSale(input, failAt, PlannedInstallments(input))
          /\ CallFrame(TRUE)
       \/ /\ getMysqlPool /\ ~hasMysqlConfig /\ faults < MaxFaults
          /\ \E persisted \in SUBSET PlannedInstallments(input) :
               /\ persisted # PlannedInstallments(input)
               /\ createProjectSale(input, "none", persisted)
          /\ CallFrame(TRUE)

PayInstallment ==
  /\ CallGuard
  /\ \E id \in InstallmentIdInputs, date \in PayDates,
        fail \in MayFail(getInitializedMysqlPool) :
       payInstallment([id |-> id, date |-> date], fail) /\ CallFrame(fail)

DeleteProject ==
  /\ CallGuard
  /\ \E id \in ProjectIds \cup {NoSuchId}, fail \in MayFail(getInitializedMysqlPool) :
       deleteProject(id, fail) /\ CallFrame(fail)

Sweep ==
  /\ CallGuard
  /\ \E today \in SweepDates, queryFails \in MayFail(getMysqlPool) :
       \E failing \in SUBSET getDueInstallments(today, queryFails) :
         /\ failing # {} => (getMysqlPool /\ ~queryFails /\ faults < MaxFaults)
         /\ runOnce(today, queryFails, failing)
         /\ CallFrame(queryFails \/ failing # {})

\* ---------------------------------------------------------------- behaviour
NoSchedule == [params |-> <<>>, list |-> <<>>, done |-> FALSE]

\* localforage.getItem gives null for a missing key; the services read "?? []"
NoCache == [present |-> FALSE, users |-> <<>>]
Cached(users) == [present |-> TRUE, users |-> users]
NoRequests == [sent |-> 0, ok |-> 0, failed |-> 0, rejected |-> 0]

\* the client module as loaded: nothing queued, nothing cached, no sync started
IdleQueue ==
  /\ started = FALSE
  /\ queue = <<>>
  /\ cache = NoCache
  /\ passes = <<>>
  /\ enqueuing = {}
  /\ requests = [m \in 1..MaxMutations |-> NoRequests]
  /\ launched = 0
  /\ created = 0

\* The server after start-up: initializeMysql() has resolved (index.ts starts
\* it at boot and every route awaits it), and a first entity has been created
\* through createProject / createInventoryItem in the store that outcome selects.
Started(store, rows) ==
  /\ backend \in {"mysql", "sqlite", "none"}
  /\ initializationPromise \in {"true", "false"}
  /\ initializationPromise = "true" => getMysqlPool
  /\ fallbackStore = IF getInitializedMysqlPool THEN EmptyFallbackStore
                     ELSE [EmptyFallbackStore EXCEPT ![store] = rows]
  /\ db = IF getInitializedMysqlPool THEN [EmptyDb EXCEPT ![store] = rows] ELSE EmptyDb
  /\ pendingInserts = {}
  /\ nextId = 2
  /\ calls = 0
  /\ last = [op |-> "none", status |-> "ok", in |-> <<>>, out |-> <<>>]
  /\ planOf = <<>>
  /\ faults = 0
  /\ usersTable = IF getInitializedMysqlPool THEN {RootAccount} ELSE {}
  /\ process = [NoProcess EXCEPT !.runs = 1]
  /\ scheduler = ArmedScheduler
  /\ sqlite = ClosedHandle
  /\ mysqlReachable = TRUE
  /\ inflight = NoInflight
  /\ schedule = NoSchedule
  /\ IdleQueue
  /\ online = TRUE

Init == Started("projects", {[id |-> 1]})

\* the project ledger and the sweep
Next ==
  \/ CreateProject
  \/ CreateProjectCost
  \/ CreateProjectSale
  \/ SettleInstallmentInsert
  \/ PayInstallment
  \/ DeleteProject
  \/ Sweep

Spec == Init /\ [][Next]_vars

\* the inventory ledger
InitInventory == \E q \in 0..MaxQty : Started("items", {[id |-> 1, quantity |-> q]})

NextInventory ==
  \/ CreateInventoryItem
  \/ RecordInventoryReceipt
  \/ RecordInventoryIssue
  \/ DeleteInventoryItem

SpecInventory == InitInventory /\ [][NextInventory]_vars

\* the schedule generator alone: one call of createInstallmentsForSale on each
\* first due date and month count
ScheduleDates ==
  {y * 10000 + m * 100 + d : y \in {2023, 2024}, m \in 1..12, d \in {1, 15, 28, 29, 30, 31}}
ValidDate(date) ==
  date % 100 <= DaysInMonth(date \div 10000, ((date \div 100) % 100) - 1)
ScheduleInputs ==
  [projectId : {1}, saleId : {2}, monthlyAmount : {1000}, months : 1..MaxScheduleMonths,
   firstDueDate : {date \in ScheduleDates : ValidDate(date)}]

\* the server side left alone
IdleLedger ==
  /\ backend = "none"
  /\ initializationPromise = "false"
  /\ fallbackStore = EmptyFallbackStore
  /\ db = EmptyDb
  /\ pendingInserts = {}
  /\ nextId = 3
  /\ calls = 0
  /\ last = [op |-> "none", status |-> "ok", in |-> <<>>, out |-> <<>>]
  /\ planOf = <<>>
  /\ faults = 0
  /\ usersTable = {}
  /\ process = [NoProcess EXCEPT !.runs = 1]
  /\ scheduler = ArmedScheduler
  /\ sqlite = ClosedHandle
  /\ mysqlReachable = TRUE
  /\ inflight = NoInflight

InitISG ==
  /\ IdleLedger
  /\ IdleQueue
  /\ online = TRUE
  /\ \E params \in ScheduleInputs : schedule = [params |-> params, list |-> <<>>, done |-> FALSE]

GenerateSchedule ==
  /\ ~schedule.done
  /\ schedule' = [schedule EXCEPT !.list = createInstallmentsForSale(schedule.params, nextId),
                                  !.done = TRUE]
  /\ UNCHANGED <<ledgerVars, omqVars>>

NextISG == GenerateSchedule

SpecISG == InitISG /\ [][NextISG]_vars

\* ------------------------------------------------------ offline mutation queue
Responses == {"2xx", "4xx", "5xx", "network"}

RECURSIVE Pow2(_)
Pow2(n) == IF n = 0 THEN 1 ELSE 2 * Pow2(n - 1)
backoff(retryCount) == Min(BackoffCap, BackoffBase * Pow2(retryCount))

Count(m, field) == [requests EXCEPT ![m][field] = @ + 1]

Without(f, p) == [x \in DOMAIN f \ {p} |-> f[x]]

\* processQueue(): returns at once when offline, otherwise starts a pass that
\* first awaits loadQueue
processQueue(running) ==
  /\ launched < MaxPasses
  /\ launched' = launched + 1
  /\ passes' = IF online
               THEN (launched + 1) :> [pc |-> "load", q |-> <<>>, idx |-> 0,
                                       remaining |-> <<>>, delay |-> 0] @@ running
               ELSE running

StartOfflineSync ==
  /\ ~started
  /\ started' = TRUE
  /\ UNCHANGED <<ledgerVars, schedule, online, queue, cache, passes, enqueuing, requests,
                 launched, created>>

\* the browser regains connectivity: the "online" listener runs if installed
OnlineEvent ==
  /\ ~online
  /\ online' = TRUE
  /\ IF started
     THEN /\ launched < MaxPasses
          /\ launched' = launched + 1
          /\ passes' = (launched + 1) :> [pc |-> "load", q |-> <<>>, idx |-> 0,
                                          remaining |-> <<>>, delay |-> 0] @@ passes
     ELSE UNCHANGED <<passes, launched>>
  /\ UNCHANGED <<ledgerVars, schedule, started, queue, cache, enqueuing, requests, created>>

OfflineEvent ==
  /\ online
  /\ online' = FALSE
  /\ UNCHANGED <<ledgerVars, schedule, started, queue, cache, passes, enqueuing, requests,
                 launched, created>>

\* the setInterval callback
IntervalTick ==
  /\ started
  /\ processQueue(passes)
  /\ UNCHANGED <<ledgerVars, schedule, online, started, queue, cache, enqueuing, requests, created>>

\* the pass moves to the item after idx: the next fetch is issued, or the loop
\* is over and remaining is saved
Advance(p, pass, remaining, reqs) ==
  IF pass.idx < Len(pass.q)
  THEN /\ passes' = [passes EXCEPT ![p] = [pass EXCEPT !.pc = "fetch", !.idx = pass.idx + 1,
                                                       !.remaining = remaining]]
       /\ requests' = [reqs EXCEPT ![pass.q[pass.idx + 1].id].sent = @ + 1]
       /\ UNCHANGED queue
  ELSE /\ queue' = remaining
       /\ requests' = reqs
       /\ passes' = IF remaining # <<>>
                    THEN [passes EXCEPT ![p] = [pass EXCEPT !.pc = "wait", !.idx = pass.idx + 1,
                                                            !.remaining = remaining,
                                                            !.delay = backoff(remaining[1].retryCount)]]
                    ELSE Without(passes, p)

\* loadQueue resolves: an empty queue ends the pass, otherwise the loop starts
LoadQueue(p) ==
  /\ passes[p].pc = "load"
  /\ IF queue = <<>>
     THEN /\ passes' = Without(passes, p)
          /\ UNCHANGED <<queue, requests>>
     ELSE Advance(p, [passes[p] EXCEPT !.q = queue], <<>>, requests)
  /\ UNCHANGED <<ledgerVars, schedule, online, started, cache, enqueuing, launched, created>>

\* fetch settles with a response, or rejects with a network failure
Respond(p, response) ==
  /\ passes[p].pc = "fetch"
  /\ LET pass == passes[p]
         item == pass.q[pass.idx]
         retried == [item EXCEPT !.retryCount = @ + 1]
         kept == IF retried.retryCount <= RetryCeiling
                 THEN Append(pass.remaining, retried) ELSE pass.remaining
     IN CASE response = "2xx" ->
               /\ cache' = NoCache
               /\ passes' = [passes EXCEPT ![p].pc = "invalidate"]
               /\ requests' = Count(item.id, "ok")
               /\ UNCHANGED queue
          [] response = "4xx" ->
               /\ Advance(p, pass, pass.remaining,
                          [requests EXCEPT ![item.id].failed = @ + 1, ![item.id].rejected = @ + 1])
               /\ UNCHANGED cache
          [] OTHER ->
               /\ Advance(p, pass, kept, Count(item.id, "failed"))
               /\ UNCHANGED cache
  /\ UNCHANGED <<ledgerVars, schedule, online, started, enqueuing, launched, created>>

\* removeItem of the cached list resolves
Invalidated(p) ==
  /\ passes[p].pc = "invalidate"
  /\ Advance(p, passes[p], passes[p].remaining, requests)
  /\ UNCHANGED <<ledgerVars, schedule, online, started, cache, enqueuing, launched, created>>

\* the backoff timer fires and the pass hands over to a new processQueue()
BackoffElapsed(p) ==
  /\ passes[p].pc = "wait"
  /\ processQueue(Without(passes, p))
  /\ UNCHANGED <<ledgerVars, schedule, online, started, queue, cache, enqueuing, requests, created>>

\* ------------------------------------------------ offline writes of the user service
LIST_URL == <<"users">>
ServerUser == [id |-> <<"server", 1>>, name |-> "stored"]
Patches == {[name |-> "patched"]}

\* the optimistic record of createUser: id `local-${Date.now()}`
tempUser(k) == [id |-> <<"local", k>>, name |-> "new"]

insertUser(current, user) == <<user>> \o current
\* mutant of patchUser: the patch is applied to every cached record
patchUser_all(current, id, patch) ==
  [k \in DOMAIN current |-> [current[k] EXCEPT !.name = patch.name]]

patchUser(current, id, patch) ==
  [k \in DOMAIN current |->
     IF current[k].id = id THEN [current[k] EXCEPT !.name = patch.name] ELSE current[k]]
removeUser(current, id) == SelectSeq(current, LAMBDA u : u.id # id)
findUser(list, id) == SelectSeq(list, LAMBDA u : u.id = id)

\* ids a caller may pass to updateUser / deleteUserApi
UserTargets == {cache.users[k].id : k \in DOMAIN cache.users} \cup {ServerUser.id}

\* the offline branch of a write: getCached has resolved with the list the
\* call will rewrite; setCached and enqueue follow
offlineWrite(method, url, body, current, updated, result) ==
  /\ created < MaxMutations
  /\ created' = created + 1
  /\ enqueuing' = enqueuing \cup
       {[pc |-> "cache", current |-> current, updated |-> updated, result |-> result, q |-> <<>>,
         item |-> [id |-> created + 1, method |-> method, url |-> url, body |-> body,
                   retryCount |-> 0]]}
  /\ UNCHANGED <<ledgerVars, schedule, online, started, queue, cache, passes, requests, launched>>

createUser ==
  /\ ~online
  /\ LET temp == tempUser(created + 1) IN
     offlineWrite("POST", LIST_URL, <<temp.name>>, cache.users,
                  insertUser(cache.users, temp), <<temp>>)

updateUser ==
  /\ ~online
  /\ \E id \in UserTargets, patch \in Patches :
       LET updated == patchUser(cache.users, id, patch)
           found == findUser(updated, id)
       IN offlineWrite("PUT", <<"users", id>>, <<patch.name>>, cache.users, updated,
                       IF found # <<>> THEN <<Head(found)>>
                       ELSE <<[id |-> id, name |-> patch.name]>>)

deleteUserApi ==
  /\ ~online
  /\ \E id \in UserTargets :
       offlineWrite("DELETE", <<"users", id>>, <<>>, cache.users,
                    removeUser(cache.users, id), <<>>)

\* setCached stores the rewritten list, then enqueue starts and reads the queue
setCached(w) ==
  /\ w.pc = "cache"
  /\ cache' = Cached(w.updated)
  /\ enqueuing' = (enqueuing \ {w}) \cup {[w EXCEPT !.pc = "queue", !.q = queue]}
  /\ UNCHANGED <<ledgerVars, schedule, online, started, queue, passes, requests, launched, created>>

\* enqueue pushes its item on the list it read and saves it; the call returns
enqueue(w) ==
  /\ w.pc = "queue"
  /\ queue' = Append(w.q, w.item)
  /\ enqueuing' = enqueuing \ {w}
  /\ UNCHANGED <<ledgerVars, schedule, online, started, cache, passes, requests, launched, created>>

InitOMQ ==
  /\ IdleLedger
  /\ schedule = NoSchedule
  /\ IdleQueue
  /\ online \in BOOLEAN

NextOMQ ==
  \/ StartOfflineSync
  \/ OnlineEvent
  \/ OfflineEvent
  \/ IntervalTick
  \/ createUser
  \/ \E w \in enqueuing : setCached(w)
  \/ \E w \in enqueuing : enqueue(w)
  \/ \E p \in DOMAIN passes : LoadQueue(p)
  \/ \E p \in DOMAIN passes :
       \E response \in IF online THEN Responses ELSE {"network"} : Respond(p, response)
  \/ \E p \in DOMAIN passes : Invalidated(p)
  \/ \E p \in DOMAIN passes : BackoffElapsed(p)

SpecOMQ == InitOMQ /\ [][NextOMQ]_vars

\* the queue as earlier failed passes left it: one mutation that has failed
\* r times in r passes, no pass running
InitResumed ==
  /\ IdleLedger
  /\ schedule = NoSchedule
  /\ online \in BOOLEAN
  /\ started = FALSE
  /\ cache = Cached(<<tempUser(1)>>)
  /\ passes = <<>>
  /\ enqueuing = {}
  /\ launched = 0
  /\ created = 1
  /\ \E r \in 0..(RetryCeiling - 1) :
       /\ queue = <<[id |-> 1, method |-> "POST", url |-> LIST_URL, body |-> <<"new">>,
                     retryCount |-> r]>>
       /\ requests = [m \in 1..MaxMutations |->
                        IF m = 1 THEN [NoRequests EXCEPT !.sent = r, !.failed = r]
                        ELSE NoRequests]

SpecResumed == InitResumed /\ [][NextOMQ]_vars

\* the write path of the user service while offline
InitOffline ==
  /\ IdleLedger
  /\ schedule = NoSchedule
  /\ online = FALSE
  /\ started = FALSE
  /\ queue = <<>>
  /\ cache \in {NoCache, Cached(<<ServerUser>>)}
  /\ passes = <<>>
  /\ enqueuing = {}
  /\ requests = [m \in 1..MaxMutations |-> NoRequests]
  /\ launched = 0
  /\ created = 0

NextOffline ==
  \/ createUser
  \/ updateUser
  \/ deleteUserApi
  \/ \E w \in enqueuing : setCached(w)
  \/ \E w \in enqueuing : enqueue(w)

SpecOffline == InitOffline /\ [][NextOffline]_vars

\* ------------------------------------------------------------------ storage initialization
\* (server/lib/mysql.ts initializeMysql, server/store/auth.ts account rows)
accountingVars == <<fallbackStore, db, pendingInserts, nextId, calls, last, planOf, faults>>

Callers == 1..MaxCallers

\* `if (!initializationPromise)`: the body runs only while nothing is memoized
shouldInitialize_retry(promise) == promise \in {"null", "false"}

shouldInitialize(promise) == promise = "null"

\* crypto.randomUUID(): an id no row of the table has, and no row written
\* by an earlier process had
freshUserId(rows) ==
  <<process.restarts,
    CHOOSE n \in 1..(Cardinality(rows) + 1) : \A r \in rows : r.id # <<process.restarts, n>>>>

hasUsername(rows, username) == \E r \in rows : r.username = username

\* seedSqliteManager / seedMysqlManager: insert the manager 'root' unless a
\* row with username 'root' exists
seedManager(rows) ==
  IF hasUsername(rows, "root")
  THEN rows
  ELSE rows \cup {[id |-> freshUserId(rows), username |-> "root", role |-> "manager"]}

\* a caller reaches `if (!initializationPromise)`; check and assignment are
\* one synchronous step, then the caller awaits the promise
initializeMysql(c) ==
  /\ c \notin process.awaiting
  /\ IF shouldInitialize(initializationPromise)
     THEN /\ initializationPromise' = "pending"
          /\ process' = [process EXCEPT !.runs = @ + 1, !.awaiting = @ \cup {c}]
     ELSE /\ initializationPromise' = initializationPromise
          /\ process' = [process EXCEPT !.awaiting = @ \cup {c}]
  /\ UNCHANGED <<backend, accountingVars, usersTable, scheduler, sqlite, mysqlReachable, inflight,
                 schedule, omqVars>>

\* what can happen to the statements of the initialization body: against the
\* networked store they throw exactly when it is not reachable; on the
\* embedded one opening the file or a statement may throw
InitializationThrows ==
  IF hasMysqlConfig THEN {~mysqlReachable} ELSE BOOLEAN

\* the body of the memoized async function settles: schema creation and
\* seeding succeeded (true), or something threw and was caught (false)
initializationSettles ==
  /\ initializationPromise = "pending"
  /\ \E threw \in InitializationThrows :
       IF threw \/ ~getMysqlPool
       THEN /\ initializationPromise' = "false"
            /\ usersTable' = usersTable
       ELSE /\ initializationPromise' = "true"
            /\ usersTable' = seedManager(usersTable)
  /\ UNCHANGED <<backend, accountingVars, process, scheduler, sqlite, mysqlReachable, inflight,
                 schedule, omqVars>>

\* `return initializationPromise`: an awaiting caller gets the settled value
initializationObserved(c) ==
  /\ c \in process.awaiting
  /\ initializationPromise \in {"true", "false"}
  /\ process' = [process EXCEPT
                   !.awaiting = @ \ {c},
                   !.observed = [k \in (DOMAIN @) \cup {c} |->
                                   IF k = c THEN initializationPromise ELSE @[k]]]
  /\ UNCHANGED <<backend, initializationPromise, accountingVars, usersTable, scheduler, sqlite,
                 mysqlReachable, inflight, schedule, omqVars>>

\* the process exits and a new one starts: module state is lost, the users
\* table is kept
restart ==
  /\ process.restarts < MaxRestarts
  /\ initializationPromise' = "null"
  /\ process' = [NoProcess EXCEPT !.restarts = process.restarts + 1]
  /\ fallbackStore' = EmptyFallbackStore
  /\ pendingInserts' = {}
  /\ UNCHANGED <<backend, db, nextId, calls, last, planOf, faults, usersTable, scheduler, sqlite,
                 mysqlReachable, inflight, schedule, omqVars>>

\* the networked store comes up
mysqlBecomesReachable ==
  /\ hasMysqlConfig
  /\ ~mysqlReachable
  /\ mysqlReachable' = TRUE
  /\ UNCHANGED <<backend, initializationPromise, accountingVars, usersTable, process, scheduler,
                 sqlite, inflight, schedule, omqVars>>

Usernames == {"root", "alice"}

\* server/store/auth.ts createUser on the backend; users.username is UNIQUE,
\* so a duplicate insert throws and adds nothing
authCreateUser(username) ==
  /\ initializationPromise = "true"
  /\ usersTable' = IF hasUsername(usersTable, username)
                   THEN usersTable
                   ELSE usersTable \cup {[id |-> freshUserId(usersTable),
                                          username |-> username, role |-> "accountant"]}
  /\ UNCHANGED <<backend, initializationPromise, accountingVars, process, scheduler, sqlite,
                 mysqlReachable, inflight, schedule, omqVars>>

\* server/store/auth.ts deleteUser on the backend: DELETE FROM users WHERE id = ?
authDeleteUser(id) ==
  /\ initializationPromise = "true"
  /\ usersTable' = {r \in usersTable : r.id # id}
  /\ UNCHANGED <<backend, initializationPromise, accountingVars, process, scheduler, sqlite,
                 mysqlReachable, inflight, schedule, omqVars>>

InitInit ==
  /\ backend \in {"mysql", "sqlite", "none"}
  /\ initializationPromise = "null"
  /\ fallbackStore = EmptyFallbackStore
  /\ db = EmptyDb
  /\ pendingInserts = {}
  /\ nextId = 1
  /\ calls = 0
  /\ last = [op |-> "none", status |-> "ok", in |-> <<>>, out |-> <<>>]
  /\ planOf = <<>>
  /\ faults = 0
  /\ usersTable = {}
  /\ process = NoProcess
  /\ scheduler = ArmedScheduler
  /\ sqlite = ClosedHandle
  /\ mysqlReachable \in (IF hasMysqlConfig THEN BOOLEAN ELSE {TRUE})
  /\ inflight = NoInflight
  /\ schedule = NoSchedule
  /\ IdleQueue
  /\ online = TRUE

NextInit ==
  \/ \E c \in Callers : initializeMysql(c)
  \/ initializationSettles
  \/ \E c \in Callers : initializationObserved(c)
  \/ restart
  \/ mysqlBecomesReachable
  \/ \E username \in Usernames : authCreateUser(username)
  \/ \E r \in usersTable : authDeleteUser(r.id)

SpecInit == InitInit /\ [][NextInit]_vars

\* ------------------------------------------------------------------ the sweep scheduler
\* (scheduleDueInstallmentChecks: `void runOnce()` then setInterval)
\* mutant of settleRun: runOnce has no try/catch, the rejection of
\* `void runOnce()` is unhandled and ends the process and its timer
settleRun_propagate(timer, escaped) == IF escaped THEN "dead" ELSE timer

\* `try { ... } catch (err) { console.error(...) }`: the promise of runOnce
\* resolves whatever happened inside, the interval timer is not touched
settleRun(timer, escaped) == timer

\* a run in which an exception reaches the catch block of runOnce before any
\* reminder was written
runOnceCaught(today) ==
  /\ last' = [op |-> "runOnce", status |-> "caught", in |-> [today |-> today], out |-> {}]
  /\ UNCHANGED <<fallbackStore, db, pendingInserts, nextId, planOf>>

\* the immediate run or one firing of the interval timer
ScheduledRun ==
  /\ initializationPromise # "null"
  /\ scheduler.timer = "armed"
  /\ scheduler.runs < MaxRuns
  /\ \E today \in SweepDates, queryFails \in MayFail(getMysqlPool), escaped \in MayFail(TRUE) :
       \E failing \in SUBSET getDueInstallments(today, queryFails) :
         LET failed == escaped \/ queryFails \/ failing # {} IN
         /\ failing # {} => (getMysqlPool /\ ~queryFails /\ ~escaped /\ faults < MaxFaults)
         /\ escaped => ~queryFails
         /\ IF escaped THEN runOnceCaught(today) ELSE runOnce(today, queryFails, failing)
         /\ scheduler' = [timer |-> settleRun(scheduler.timer, escaped),
                          runs |-> scheduler.runs + 1,
                          failedRuns |-> scheduler.failedRuns + (IF failed THEN 1 ELSE 0),
                          lastRunThrew |-> failed]
         /\ faults' = IF failed THEN faults + 1 ELSE faults
  /\ UNCHANGED <<backend, initializationPromise, calls, usersTable, process, sqlite,
                 mysqlReachable, inflight, schedule, omqVars>>

\* the server after one financed sale of two months on project 1 whose
\* installment inserts have settled: the installments are in memory in every
\* mode, and on the backend when the sale row is there for them to reference
FinancedSale ==
  [projectId |-> 1, price |-> MaxQty, downPayment |-> 0, monthlyAmount |-> 1,
   months |-> 2, firstDueDate |-> 20240131]

InitSweep ==
  LET sale == [id |-> 2, projectId |-> 1, price |-> FinancedSale.price]
      transaction == newTransaction(3, "revenue", immediateAmount(FinancedSale))
      installments == Range(createInstallmentsForSale(
                        [projectId |-> 1, saleId |-> 2, monthlyAmount |-> 1, months |-> 2,
                         firstDueDate |-> FinancedSale.firstDueDate], 4))
      rows == [projects |-> {[id |-> 1]}, sales |-> {sale}, transactions |-> {transaction}]
  IN
  /\ backend \in {"mysql", "sqlite", "none"}
  /\ initializationPromise \in {"true", "false"}
  /\ initializationPromise = "true" => getMysqlPool
  /\ fallbackStore =
       IF getInitializedMysqlPool
       THEN [EmptyFallbackStore EXCEPT !.installments = installments]
       ELSE [EmptyFallbackStore EXCEPT !.projects = rows.projects, !.sales = rows.sales,
                                       !.transactions = rows.transactions,
                                       !.installments = installments]
  /\ db = IF getInitializedMysqlPool
          THEN [EmptyDb EXCEPT !.projects = rows.projects, !.sales = rows.sales,
                               !.transactions = rows.transactions,
                               !.installments = installments]
          ELSE EmptyDb
  /\ pendingInserts = {}
  /\ nextId = 6
  /\ calls = 1
  /\ last = [op |-> "createProjectSale", status |-> "ok", in |-> FinancedSale,
             out |-> [sale |-> sale, transaction |-> transaction,
                      installments |-> createInstallmentsForSale(
                        [projectId |-> 1, saleId |-> 2, monthlyAmount |-> 1, months |-> 2,
                         firstDueDate |-> FinancedSale.firstDueDate], 4)]]
  /\ planOf = (2 :> 2)
  /\ faults = 0
  /\ usersTable = IF getInitializedMysqlPool THEN {RootAccount} ELSE {}
  /\ process = [NoProcess EXCEPT !.runs = 1]
  /\ scheduler = ArmedScheduler
  /\ sqlite = ClosedHandle
  /\ mysqlReachable = TRUE
  /\ inflight = NoInflight
  /\ schedule = NoSchedule
  /\ IdleQueue
  /\ online = TRUE

NextSweep ==
  \/ PayInstallment
  \/ ScheduledRun

SpecSweep == InitSweep /\ [][NextSweep]_vars

\* the interval timer fires as long as it is armed
FairSweep == SpecSweep /\ WF_vars(ScheduledRun)

\* ------------------------------------------------------------------ the embedded backend
\* (BetterSqlitePool / BetterSqliteConnection: every connection object and
\* the pool run their statements on the one better-sqlite3 handle)
Connections == 1..MaxConnections
PoolQuery == 0          \* issuer of a statement run through pool.query

sqliteFrame ==
  UNCHANGED <<backend, initializationPromise, accountingVars, usersTable, process, scheduler,
              mysqlReachable, inflight, schedule, omqVars>>

\* beginTransaction(): BEGIN IMMEDIATE on the shared handle; sqlite refuses
\* it while the handle has a transaction open, and the call throws
beginTransaction(c) ==
  /\ sqlite' =
       IF c \in sqlite.inTransaction THEN [sqlite EXCEPT !.error = "none"]
       ELSE IF sqlite.open THEN [sqlite EXCEPT !.error = "begin"]
       ELSE [sqlite EXCEPT !.open = TRUE, !.owner = c, !.inTransaction = @ \cup {c},
                           !.error = "none"]
  /\ sqliteFrame

\* statement.run(params) of an INSERT / UPDATE / DELETE by a connection's
\* query or by pool.query: it joins the transaction open on the handle, or
\* commits by itself when there is none
\* (a write records who issued it and whose transaction it ran in, 0 for none)
runStatement(issuer) ==
  /\ LET write == [issuer |-> issuer, n |-> sqlite.statements + 1, owner |-> sqlite.owner] IN
     sqlite' = IF sqlite.open
               THEN [sqlite EXCEPT !.uncommitted = @ \cup {write}, !.statements = @ + 1,
                                   !.error = "none"]
               ELSE [sqlite EXCEPT !.committed = @ \cup {write}, !.statements = @ + 1,
                                   !.error = "none"]
  /\ sqliteFrame

connectionQuery(c) ==
  /\ sqlite.statements < MaxStatements
  /\ runStatement(c)

poolQuery ==
  /\ sqlite.statements < MaxStatements
  /\ runStatement(PoolQuery)

\* commit(): COMMIT on the shared handle
commit(c) ==
  /\ c \in sqlite.inTransaction
  /\ sqlite' =
       IF sqlite.open
       THEN [sqlite EXCEPT !.open = FALSE, !.owner = 0, !.inTransaction = @ \ {c},
                           !.committed = @ \cup sqlite.uncommitted, !.uncommitted = {},
                           !.error = "none"]
       ELSE [sqlite EXCEPT !.error = "commit"]
  /\ sqliteFrame

\* rollback(), and release() of a connection whose flag is still set:
\* ROLLBACK on the shared handle, the flag is cleared whatever happens
rollback(c) ==
  /\ c \in sqlite.inTransaction
  /\ sqlite' = [sqlite EXCEPT !.open = FALSE, !.owner = 0, !.inTransaction = @ \ {c},
                              !.uncommitted = {},
                              !.error = IF sqlite.open THEN "none" ELSE "rollback"]
  /\ sqliteFrame

InitSqlite ==
  /\ Started("projects", {[id |-> 1]})
  /\ backend = "sqlite"
  /\ initializationPromise = "true"

NextSqlite ==
  \/ \E c \in Connections : beginTransaction(c)
  \/ \E c \in Connections : connectionQuery(c)
  \/ poolQuery
  \/ \E c \in Connections : commit(c)
  \/ \E c \in Connections : rollback(c)

SpecSqlite == InitSqlite /\ [][NextSqlite]_vars

\* ------------------------------------------------------------------ the ledger across restarts
\* the server with one financed sale stored; the process may exit and start
\* again (the in-memory maps are lost, the backend rows are kept) and
\* installments are settled
NextRestart ==
  \/ restart
  \/ \E c \in Callers : initializeMysql(c)
  \/ initializationSettles
  \/ PayInstallment

SpecRestart == InitSweep /\ [][NextRestart]_vars

\* ------------------------------------------------------------------ concurrent inventory operations
\* recordInventoryReceipt / recordInventoryIssue on the networked backend,
\* statement by statement, each call on its own pooled connection.  The
\* store is InnoDB at its default isolation: a plain SELECT is a non-locking
\* read of committed data, an UPDATE takes the row lock until commit.
concurrentFrame ==
  UNCHANGED <<backend, initializationPromise, fallbackStore, pendingInserts, calls, last, planOf,
              faults, usersTable, process, scheduler, sqlite, mysqlReachable, schedule, omqVars>>

ConcurrentInputs == [itemId : {1}, qty : 1..MaxQty, unitPrice : UnitPrices]

\* conn.beginTransaction()
beginMovement(op, input) ==
  /\ Len(inflight.txns) < MaxConcurrent
  /\ Has(db.items, input.itemId)
  /\ inflight' = [inflight EXCEPT
                    !.txns = Append(@, [op |-> op, input |-> input, pc |-> "begun",
                                        base |-> 0, quantity |-> 0]),
                    \* the quantity the operations of this behaviour start from
                    !.start = IF inflight.txns = <<>>
                              THEN Row(db.items, input.itemId).quantity ELSE @]
  /\ UNCHANGED <<db, nextId>>
  /\ concurrentFrame

\* getItemRowForUpdate: SELECT ... FROM inventory_items WHERE id = ? LIMIT 1
\* (no FOR UPDATE); the item is there, so it does not throw
getItemRowForUpdate(t) ==
  /\ inflight.txns[t].pc = "begun"
  /\ Has(db.items, inflight.txns[t].input.itemId)
  /\ inflight' = [inflight EXCEPT
                    !.txns[t].pc = "read",
                    !.txns[t].base = Row(db.items, inflight.txns[t].input.itemId).quantity]
  /\ UNCHANGED <<db, nextId>>
  /\ concurrentFrame

\* the UPDATE: `SET quantity = quantity + ?` for a receipt (computed by the
\* store on the current row), `SET quantity = ?` with the value computed from
\* the row read before for an issue; it waits for the row lock
updateQuantity(t) ==
  LET x == inflight.txns[t]
      current == Row(db.items, x.input.itemId).quantity
  IN
  /\ x.pc = "read"
  /\ inflight.rowLock = 0
  /\ inflight' = [inflight EXCEPT
                    !.rowLock = t,
                    !.txns[t].pc = "updated",
                    !.txns[t].quantity =
                       IF x.op = "recordInventoryReceipt"
                       THEN receiptQuantity(current, x.input.qty)
                       ELSE nextQuantity(x.base, x.input.qty)]
  /\ UNCHANGED <<db, nextId>>
  /\ concurrentFrame

\* the movement and transaction INSERTs and conn.commit(): the writes become
\* visible and the row lock is released
commitMovement(t) ==
  LET x == inflight.txns[t]
      item == Row(db.items, x.input.itemId)
      total == movementTotal(x.input.qty, x.input.unitPrice)
      movement == [id |-> nextId, itemId |-> x.input.itemId,
                   kind |-> IF x.op = "recordInventoryReceipt" THEN "in" ELSE "out",
                   qty |-> x.input.qty, unitPrice |-> x.input.unitPrice, total |-> total]
  IN
  /\ x.pc = "updated"
  /\ db' = [db EXCEPT !.items = Put(@, [item EXCEPT !.quantity = x.quantity]),
                      !.movements = @ \cup {movement},
                      !.transactions = @ \cup {newTransaction(nextId + 1, "expense", total)}]
  /\ nextId' = nextId + 2
  /\ inflight' = [inflight EXCEPT !.rowLock = 0, !.txns[t].pc = "done"]
  /\ concurrentFrame

InitConcurrent ==
  /\ InitInventory
  /\ backend = "mysql"
  /\ initializationPromise = "true"

NextConcurrent ==
  \/ \E op \in {"recordInventoryReceipt", "recordInventoryIssue"}, input \in ConcurrentInputs :
       beginMovement(op, input)
  \/ \E t \in 1..Len(inflight.txns) : getItemRowForUpdate(t)
  \/ \E t \in 1..Len(inflight.txns) : updateQuantity(t)
  \/ \E t \in 1..Len(inflight.txns) : commitMovement(t)

SpecConcurrent == InitConcurrent /\ [][NextConcurrent]_vars

\* ------------------------------------ drain passes over an unbounded run (lib/offline)
\* The passes of a behaviour are not counted here: a pass runs in a slot that
\* is free again when the pass has returned, so that a behaviour may hold any
\* number of passes, MaxOverlap of them at one time.
Slots == 1..MaxOverlap
FreeSlot(running) ==
  CHOOSE s \in Slots \ DOMAIN running : \A t \in Slots \ DOMAIN running : s <= t
NewPass == [pc |-> "load", q |-> <<>>, idx |-> 0, remaining |-> <<>>, delay |-> 0]

\* the setInterval callback: processQueue() returns at once when offline
intervalCallback ==
  /\ started
  /\ online
  /\ Slots \ DOMAIN passes # {}
  /\ passes' = (FreeSlot(passes) :> NewPass) @@ passes
  /\ UNCHANGED <<ledgerVars, schedule, online, started, queue, cache, enqueuing, requests,
                 launched, created>>

\* the "online" listener
onlineListener ==
  /\ started
  /\ ~online
  /\ Slots \ DOMAIN passes # {}
  /\ online' = TRUE
  /\ passes' = (FreeSlot(passes) :> NewPass) @@ passes
  /\ UNCHANGED <<ledgerVars, schedule, started, queue, cache, enqueuing, requests,
                 launched, created>>

\* mutant of rerunProcessQueue: the backoff timer never hands over
rerunProcessQueue_stuck(p) ==
  /\ passes[p].pc = "wait"
  /\ UNCHANGED vars

\* wait(backoff) resolves and processQueue() is called again: the waiting
\* call returns, the new one starts in its slot or returns at once when offline
rerunProcessQueue(p) ==
  /\ passes[p].pc = "wait"
  /\ passes' = IF online THEN [passes EXCEPT ![p] = NewPass] ELSE Without(passes, p)
  /\ UNCHANGED <<ledgerVars, schedule, online, started, queue, cache, enqueuing, requests,
                 launched, created>>

\* the next step of the pass in slot p
PassStep(p) ==
  /\ p \in DOMAIN passes
  /\ \/ LoadQueue(p)
     \/ \E response \in IF online THEN Responses ELSE {"network"} : Respond(p, response)
     \/ Invalidated(p)
     \/ rerunProcessQueue(p)

\* sync started; the queue as r earlier failed passes left it, r within
\* MaxRetriesLeft of the retry ceiling
InitDrain ==
  /\ IdleLedger
  /\ schedule = NoSchedule
  /\ online \in BOOLEAN
  /\ started = TRUE
  /\ passes = <<>>
  /\ enqueuing = {}
  /\ launched = 0
  /\ \E n \in 1..MaxMutations, r \in (RetryCeiling - MaxRetriesLeft)..RetryCeiling :
       /\ created = n
       /\ cache = Cached([k \in 1..n |-> tempUser(n + 1 - k)])
       /\ queue = [k \in 1..n |->
                     [id |-> k, method |-> "POST", url |-> LIST_URL, body |-> <<"new">>,
                      retryCount |-> r]]
       /\ requests = [m \in 1..MaxMutations |->
                        IF m <= n THEN [NoRequests EXCEPT !.sent = r, !.failed = r]
                        ELSE NoRequests]

NextDrain ==
  \/ intervalCallback
  \/ onlineListener
  \/ OfflineEvent
  \/ \E p \in DOMAIN passes : LoadQueue(p)
  \/ \E p \in DOMAIN passes :
       \E response \in IF online THEN Responses ELSE {"network"} : Respond(p, response)
  \/ \E p \in DOMAIN passes : Invalidated(p)
  \/ \E p \in DOMAIN passes : rerunProcessQueue(p)

SpecDrain == InitDrain /\ [][NextDrain]_vars

\* the interval keeps firing, and every pass in flight takes its next step:
\* storage calls resolve, requests get a response or fail, timers fire
FairDrain ==
  /\ SpecDrain
  /\ WF_vars(intervalCallback)
  /\ \A p \in Slots : WF_vars(PassStep(p))

\* ------------------------------------------------------------------ claims
\* a step that is one invocation of store operation op
IsCall(op) == calls' = calls + 1 /\ last'.op = op

\* C1: every recordInventoryReceipt on an existing item that returns
\* successfully leaves the stored quantity at the quantity before plus qty and
\* adds exactly one movement (kind 'in', total = qty * unitPrice) and exactly
\* one expense transaction of that amount, in memory and on the backend.
C1_ReceiptAddsQuantity ==
  [][(IsCall("recordInventoryReceipt") /\ last'.status = "ok") =>
       LET input == last'.in
           before == getAccountingSnapshot
           after == getAccountingSnapshot'
           movements == after.movements \ before.movements
           transactions == after.transactions \ before.transactions
       IN /\ Has(before.items, input.itemId)
          /\ Row(after.items, input.itemId).quantity
               = Row(before.items, input.itemId).quantity + input.qty
          /\ last'.out.item = Row(after.items, input.itemId)
          /\ Cardinality(movements) = 1
          /\ \A m \in movements :
               /\ m.kind = "in" /\ m.itemId = input.itemId /\ m.qty = input.qty
               /\ m.total = input.qty * input.unitPrice
          /\ Cardinality(transactions) = 1
          /\ \A t \in transactions :
               t.type = "expense" /\ t.amount = input.qty * input.unitPrice
          /\ before.movements \subseteq after.movements
          /\ before.transactions \subseteq after.transactions]_vars

\* C1 witness: a receipt on the backend that found stock on hand and added to it
C1_Witness ==
  /\ last.op = "recordInventoryReceipt" /\ last.status = "ok"
  /\ getInitializedMysqlPool
  /\ last.out.item.quantity > last.in.qty
  /\ last.out.movement \in db.movements

\* C2: recordInventoryIssue on an existing item is never rejected for
\* insufficient stock (it fails only when a statement throws), leaves the
\* stored quantity at max(0, quantity before - qty), and adds exactly one
\* 'out' movement and one expense transaction of amount qty * unitPrice.
C2_IssueClampsAtZero ==
  [][IsCall("recordInventoryIssue") =>
       LET input == last'.in
           before == getAccountingSnapshot
           after == getAccountingSnapshot'
           movements == after.movements \ before.movements
           transactions == after.transactions \ before.transactions
           old == Row(before.items, input.itemId).quantity
       IN IF last'.status = "ok"
          THEN /\ Has(before.items, input.itemId)
               /\ Row(after.items, input.itemId).quantity
                    = (IF old - input.qty > 0 THEN old - input.qty ELSE 0)
               /\ Cardinality(movements) = 1
               /\ \A m \in movements :
                    /\ m.kind = "out" /\ m.itemId = input.itemId /\ m.qty = input.qty
                    /\ m.total = input.qty * input.unitPrice
               /\ Cardinality(transactions) = 1
               /\ \A t \in transactions :
                    t.type = "expense" /\ t.amount = input.qty * input.unitPrice
          ELSE ~Has(before.items, input.itemId) \/ faults' = faults + 1]_vars

\* C2 witness: the first item (at most MaxQty on hand at the start, never
\* restocked) was issued MaxQty twice: the second issue exceeded the stock
C2_Witness ==
  /\ last.op = "recordInventoryIssue" /\ last.status = "ok" /\ last.in.itemId = 1
  /\ last.out.item.quantity = 0
  /\ LET ms == {m \in getAccountingSnapshot.movements : m.itemId = 1} IN
       /\ \A m \in ms : m.kind = "out" /\ m.qty = MaxQty
       /\ Cardinality(ms) >= 2

\* C3: a compound ledger operation that fails leaves none of its writes
\* behind: both stores are as they were before the call.
CompoundOperations ==
  {"recordInventoryReceipt", "recordInventoryIssue", "createProjectCost",
   "createProjectSale", "payInstallment"}

C3_FailedOperationLeavesNothing ==
  [][(calls' = calls + 1 /\ last'.op \in CompoundOperations /\ last'.status # "ok") =>
       (fallbackStore' = fallbackStore /\ db' = db)]_vars

\* C4: a successful payInstallment(id, date) records exactly one revenue
\* transaction of the installment's amount; on an unpaid installment it sets
\* paid and paidAt = date, on a paid one it leaves the installment as it was.
C4_PayOnceThenUnchanged ==
  [][(IsCall("payInstallment") /\ last'.status = "ok") =>
       LET params == last'.in
           before == Row(fallbackStore.installments, params.id)
           after == Row(fallbackStore'.installments, params.id)
           transactions == getAccountingSnapshot'.transactions \ getAccountingSnapshot.transactions
       IN /\ Has(fallbackStore.installments, params.id)
          /\ Cardinality(transactions) = 1
          /\ \A t \in transactions :
               t.type = "revenue" /\ t.amount = before.amount /\ t = last'.out.transaction
          /\ last'.out.installment = after
          /\ after.paid
          /\ IF before.paid THEN after = before
             ELSE after = [before EXCEPT !.paid = TRUE, !.paidAt = params.date]]_vars

\* C4 witness: an installment paid a second time, on another date than the first
C4_Witness ==
  /\ last.op = "payInstallment" /\ last.status = "ok"
  /\ last.out.installment.paid
  /\ last.out.installment.paidAt # last.in.date
  /\ Cardinality({t \in getAccountingSnapshot.transactions :
                    t.type = "revenue" /\ t.amount = last.out.installment.amount}) >= 2

\* the date k calendar months after start, the day clamped to the month's end
ClampedMonthAdd(start, k) ==
  LET y == start \div 10000
      mi == ((start \div 100) % 100) - 1 + k
      yy == y + (mi \div 12)
      mo == mi % 12
  IN yy * 10000 + (mo + 1) * 100 + Min(start % 100, DaysInMonth(yy, mo))

\* C5: the generator returns exactly N installments, the i-th due in the
\* calendar month i months after the first due date's month, on the first due
\* date's day clamped to that month's last day, each of the monthly amount
\* and unpaid (2024-01-31 x 6: 01-31, 02-29, 03-31, 04-30, 05-31, 06-30).
C5_ScheduleClampsToMonthEnd ==
  schedule.done =>
    /\ Len(schedule.list) = schedule.params.months
    /\ \A i \in 1..Len(schedule.list) :
         /\ schedule.list[i].dueDate = ClampedMonthAdd(schedule.params.firstDueDate, i - 1)
         /\ schedule.list[i].amount = schedule.params.monthlyAmount
         /\ ~schedule.list[i].paid

\* C6: after a successful deleteProject(P) no read returns P, a cost, a sale
\* or an installment of P, and no installment of P can be paid any more.
C6_DeleteProjectRemovesAll ==
  (last.op = "deleteProject" /\ last.status = "ok") =>
    LET P == last.in.id IN
    /\ \A queryFails \in BOOLEAN : getProjectSnapshot(P, queryFails) = <<>>
    /\ ~Has(getAccountingSnapshot.projects, P)
    /\ \A c \in getAccountingSnapshot.costs : c.projectId # P
    /\ \A x \in getAccountingSnapshot.sales : x.projectId # P
    /\ \A date \in SweepDates \cup PayDates, queryFails \in BOOLEAN :
         \A i \in getDueInstallments(date, queryFails) : i.projectId # P
    /\ \A i \in fallbackStore.installments : i.projectId # P

\* C7: with no createProjectSale and none of its background writes in
\* progress, every persisted sale with a plan of N months has exactly N
\* persisted installments, and every stored installment references a sale
\* and a project that exist.
C7_CompleteSchedules ==
  pendingInserts = {} =>
    LET store == IF getInitializedMysqlPool THEN db ELSE fallbackStore IN
    /\ \A x \in store.sales :
         (x.id \in DOMAIN planOf /\ planOf[x.id] > 0) =>
           Cardinality({i \in store.installments : i.saleId = x.id}) = planOf[x.id]
    /\ \A i \in store.installments \cup fallbackStore.installments :
         Has(store.sales, i.saleId) /\ Has(store.projects, i.projectId)

\* C8: a sweep run, started with no installment insert in flight, appends
\* exactly one reminder for every installment that is unpaid and due on or
\* before the run's date, and none for any other.
InstallmentsKnown == fallbackStore.installments \cup db.installments
IsPaid(id) == \E i \in fallbackStore.installments : i.id = id /\ i.paid
UnpaidDue(date) ==
  {i.id : i \in {x \in InstallmentsKnown : ~IsPaid(x.id) /\ x.dueDate <= date}}

C8_OneReminderPerDueInstallment ==
  [][(IsCall("runOnce") /\ pendingInserts = {}) =>
       LET appended == db'.reminders \ db.reminders
           due == UnpaidDue(last'.in.today)
       IN /\ \A id \in due : Cardinality({r \in appended : r.installmentId = id}) = 1
          /\ \A r \in appended : r.installmentId \in due]_vars

\* C9: a queued mutation whose replay the server answers 2xx has been
\* replayed exactly once (every other request sent for it was one that
\* failed before), and once no drain pass and no enqueue is running it is no
\* longer in the queue.
C9_ReplayedExactlyOnce ==
  \A m \in 1..MaxMutations :
    requests[m].ok > 0 =>
      /\ requests[m].ok = 1
      /\ requests[m].sent = requests[m].failed + 1
      /\ (passes = <<>> /\ enqueuing = {}) =>
           \A k \in 1..Len(queue) : queue[k].id # m

\* C10: at no moment are two replay requests in flight.
InFlight == {p \in DOMAIN passes : passes[p].pc = "fetch"}

C10_OneRequestInFlight == Cardinality(InFlight) <= 1

\* C11: once a replay of a mutation has been answered 4xx, no further request
\* is sent for it, and when no drain pass and no enqueue is running it is not
\* in the queue.
C11_RejectedNeverResent ==
  [][\A m \in 1..MaxMutations :
       requests[m].rejected > 0 =>
         /\ requests'[m].sent = requests[m].sent
         /\ (passes' = <<>> /\ enqueuing' = {}) =>
              \A k \in 1..Len(queue') : queue'[k].id # m]_vars

\* C12: no mutation is sent more than 5 times, and a mutation that has failed
\* 5 times is no longer kept in the queue.
C12_AtMostFiveAttempts ==
  /\ \A m \in 1..MaxMutations : requests[m].sent <= RetryCeiling
  /\ \A k \in 1..Len(queue) : queue[k].retryCount < RetryCeiling

\* C13: an offline create, update or delete rewrites the cached user list
\* (created record first, under a local id; updated record patched; deleted
\* record removed; every other record kept), appends exactly one mutation
\* describing the call to the queue it read, returns the optimistic result,
\* and sends no request.
OptimisticList(item, before, after) ==
  CASE item.method = "POST" ->
         /\ Len(after) = Len(before) + 1
         /\ after[1].id[1] = "local" /\ after[1].name = item.body[1]
         /\ \A k \in 1..Len(before) : after[k + 1] = before[k] /\ before[k].id # after[1].id
    [] item.method = "PUT" ->
         /\ Len(after) = Len(before)
         /\ \A k \in 1..Len(before) :
              after[k] = IF before[k].id = item.url[2]
                         THEN [before[k] EXCEPT !.name = item.body[1]] ELSE before[k]
    [] OTHER ->
         after = SelectSeq(before, LAMBDA u : u.id # item.url[2])

OptimisticResult(item, after, result) ==
  CASE item.method = "POST" -> result = <<after[1]>>
    [] item.method = "PUT" ->
         /\ Len(result) = 1
         /\ result[1].id = item.url[2] /\ result[1].name = item.body[1]
         /\ \A k \in 1..Len(after) : after[k].id = item.url[2] => result[1] = after[k]
    [] OTHER -> result = <<>>

C13_OfflineWriteIsOptimistic ==
  [][/\ requests' = requests
     /\ \A w \in enqueuing :
          /\ (w.pc = "cache" /\ w \notin enqueuing') =>
               /\ cache'.present
               /\ OptimisticList(w.item, w.current, cache'.users)
               /\ queue' = queue
          /\ (w.pc = "queue" /\ w \notin enqueuing') =>
               /\ queue' = Append(w.q, w.item)
               /\ w.item.retryCount = 0
               /\ w.item.method \in {"POST", "PUT", "DELETE"}
               /\ (w.item.method = "POST") = (w.item.url = LIST_URL)
               /\ OptimisticResult(w.item, w.updated, w.result)
               /\ cache' = cache]_vars

\* C13 witness: an offline create and an offline update of another record have
\* both returned: the list holds the local record and the patched one, the
\* queue both mutations in call order
C13_Witness ==
  /\ enqueuing = {}
  /\ Len(queue) = 2 /\ queue[1].method = "POST" /\ queue[2].method = "PUT"
  /\ Len(cache.users) = 2
  /\ cache.users[1].id[1] = "local" /\ cache.users[1].name = "new"
  /\ cache.users[2].id = queue[2].url[2] /\ cache.users[2].name = "patched"

\* C14: once initialization has succeeded, no ledger operation writes to the
\* in-memory store, and none is answered from it: an installment that
\* payInstallment settles is a row of the backend.
C14_BackendOnlyOnceInitialized ==
  [][(getInitializedMysqlPool /\ calls' = calls + 1) =>
       /\ fallbackStore' = fallbackStore
       /\ (last'.op = "payInstallment" /\ last'.status = "ok") =>
            Has(db.installments, last'.in.id)]_vars

C16_SeedsOnlyEmptyTable ==
  [][(initializationPromise = "pending" /\ initializationPromise' # "pending") =>
       IF initializationPromise' = "true" /\ usersTable = {}
       THEN \E a \in usersTable' : usersTable' = {a} /\ a.role = "manager"
       ELSE usersTable' = usersTable]_vars

\* C17: deleteProject and deleteInventoryItem given an id that no stored
\* project / item has raise not-found and leave both stores as they were,
\* in memory and on the backend.
C17_DeleteMissingIsNotFound ==
  [][((IsCall("deleteProject") /\ ~Has(ActiveProjects, last'.in.id))
      \/ (IsCall("deleteInventoryItem") /\ ~Has(ActiveItems, last'.in.id))) =>
       /\ last'.status \in {"not_found", "error"} => <<fallbackStore, db>>' = <<fallbackStore, db>>
       /\ last'.status # "error" => last'.status = "not_found"]_vars

C19_FailedRunKeepsSchedule ==
  /\ [](scheduler.timer = "armed")
  /\ [](last.op = "runOnce" => last.status \in {"ok", "caught"})
  /\ \A n \in 0..(MaxRuns - 1) :
       (scheduler.runs = n /\ scheduler.lastRunThrew) ~> (scheduler.runs > n)

\* a failed run was followed by a run that went through and found a due
\* installment
C19_Witness ==
  /\ scheduler.failedRuns = 1
  /\ ~scheduler.lastRunThrew
  /\ scheduler.runs >= 2
  /\ last.op = "runOnce" /\ last.status = "ok" /\ last.out # {}

\* C20: on the embedded backend, while a connection has a transaction open
\* every uncommitted write was issued by that connection (no statement of
\* another connection or of pool.query runs inside it), every committed
\* write ran outside any transaction or inside its issuer's own, and no
\* beginTransaction fails because a transaction is open.
C20_NoConcurrentWriters ==
  /\ \A w \in sqlite.uncommitted : w.issuer = sqlite.owner
  /\ \A w \in sqlite.committed : w.owner \in {0, w.issuer}
  /\ sqlite.error # "begin"

\* sum of the amounts of a list of installments
RECURSIVE SumAmounts(_)
SumAmounts(list) == IF list = <<>> THEN 0 ELSE Head(list).amount + SumAmounts(Tail(list))

\* C21: for every sale created with a financing plan, the amounts of the
\* returned installment batch add up to price - downPayment.
C21_BatchSumsToFinancedPart ==
  [][(IsCall("createProjectSale") /\ last'.status = "ok" /\ last'.out.installments # <<>>) =>
       SumAmounts(last'.out.installments) = last'.in.price - last'.in.downPayment]_vars

\* C22: with credentials of the networked store configured, a call for the
\* initialized pool made while the store is reachable starts or joins an
\* initialization, or finds the store ready; the server does not stay on
\* the in-memory fallback once the store has come up.
C22_SwitchesOnceReachable ==
  [][\A c \in Callers :
       (hasMysqlConfig /\ mysqlReachable /\ c \notin process.awaiting
          /\ c \in process'.awaiting) =>
         initializationPromise' \in {"pending", "true"}]_vars

\* C23: once payInstallment(id) has returned successfully, getDueInstallments
\* returns the installment for no as-of date and getProjectSnapshot reports
\* it as paid, whether or not the installment query of the read throws, in
\* memory and on the backend.
C23_PaidIsReportedPaid ==
  (last.op = "payInstallment" /\ last.status = "ok") =>
    LET id == last.in.id
        P == last.out.installment.projectId
    IN \A queryFails \in BOOLEAN :
         /\ \A date \in SweepDates \cup PayDates :
              \A i \in getDueInstallments(date, queryFails) : i.id # id
         /\ LET snapshot == getProjectSnapshot(P, queryFails) IN
            snapshot # <<>> =>
              \A i \in snapshot.installments : i.id = id => i.paid

\* C24: a mutation whose enqueue has completed is in the stored queue unless
\* a replay of it got a 2xx or a 4xx answer or its retries exceeded the
\* ceiling; stated for the states in which no drain pass and no enqueue is
\* in progress.
C24_NoQueuedMutationLost ==
  (passes = <<>> /\ enqueuing = {}) =>
    \A m \in 1..created :
      \/ \E k \in 1..Len(queue) : queue[k].id = m
      \/ requests[m].ok > 0
      \/ requests[m].rejected > 0
      \/ requests[m].failed > RetryCeiling

\* the installment ids the reads of the current state return
ReturnedInstallmentIds ==
  UNION {{i.id : i \in getDueInstallments(date, queryFails)} :
           date \in SweepDates \cup PayDates, queryFails \in BOOLEAN}
  \cup
  UNION {LET snapshot == getProjectSnapshot(P, queryFails) IN
         IF snapshot = <<>> THEN {} ELSE {i.id : i \in snapshot.installments} :
           P \in ProjectIds, queryFails \in BOOLEAN}

\* C25: payInstallment on an installment id that getDueInstallments or
\* getProjectSnapshot returns does not raise not-found, also after the process
\* has restarted on a backend that kept its rows.
C25_ReturnedInstallmentCanBePaid ==
  [][(IsCall("payInstallment") /\ last'.in.id \in ReturnedInstallmentIds) =>
       last'.status # "not_found"]_vars

\* the quantity one inventory operation leaves when it runs alone
SerialQuantity(x, quantity) ==
  IF x.op = "recordInventoryReceipt"
  THEN quantity + x.input.qty
  ELSE IF quantity - x.input.qty >= 0 THEN quantity - x.input.qty ELSE 0

\* C26: when two inventory operations on the same item, at least one of them
\* an issue, have both committed on the networked backend, the item's
\* quantity is what one of the two serial orders gives from the quantity
\* they started from.
C26_NoLostInventoryUpdate ==
  (/\ Len(inflight.txns) = 2
   /\ \A t \in 1..2 : inflight.txns[t].pc = "done"
   /\ \E t \in 1..2 : inflight.txns[t].op = "recordInventoryIssue")
  => Row(db.items, 1).quantity
       \in {SerialQuantity(inflight.txns[2], SerialQuantity(inflight.txns[1], inflight.start)),
            SerialQuantity(inflight.txns[1], SerialQuantity(inflight.txns[2], inflight.start))}

\* mutation m is settled: a replay of it succeeded, it was discarded on a
\* 4xx, or its retries exceeded the ceiling
Settled(m) ==
  requests[m].ok > 0 \/ requests[m].rejected > 0 \/ requests[m].failed > RetryCeiling

\* C27: while a drain pass has the request of a mutation in flight, every
\* mutation that precedes it in the queue the pass loaded is settled: the
\* server is never sent b while an earlier a is still pending.
C27_ReplayKeepsEnqueueOrder ==
  \A p \in DOMAIN passes :
    passes[p].pc = "fetch" =>
      \A j \in 1..(passes[p].idx - 1) : Settled(passes[p].q[j].id)

\* C28: after a failed storage initialization the process works on the
\* in-memory store only: no installment INSERT is in flight to the backend,
\* a finished sweep has listed exactly the due installments of the in-memory
\* store, and every installment row of the backend has its sale there.
C28_FailedInitializationStaysInMemory ==
  initializationPromise = "false" =>
    /\ pendingInserts = {}
    /\ (last.op = "runOnce" /\ last.status = "ok") =>
         last.out = {i.id : i \in dueIn(fallbackStore.installments, last.in.today)}
    /\ \A i \in db.installments : Has(db.sales, i.saleId)

\* the stated schedule: 1 s after the first failed attempt, doubling with
\* each further one, at most 30 s
StatedDelay(failedAttempts) ==
  Min(BackoffCap, BackoffBase * Pow2(failedAttempts - 1))

\* C29: a pass that waits before its backoff re-run waits 1 s when the head
\* of the remaining queue has failed once, twice as long for each further
\* failed attempt of it, and never more than 30 s.
C29_BackoffStartsAtOneSecond ==
  \A p \in DOMAIN passes :
    passes[p].pc = "wait" =>
      /\ passes[p].delay = StatedDelay(passes[p].remaining[1].retryCount)
      /\ passes[p].delay <= BackoffCap

InQueue(m) == \E k \in 1..Len(queue) : queue[k].id = m

\* C30: with the interval firing and every pass step eventually taken, in a
\* behaviour where the client is online again and again every queued
\* mutation eventually leaves the queue; and once the queue stays empty no
\* pass is left waiting for a backoff re-run.
C30_QueueDrains ==
  /\ \A m \in 1..MaxMutations : ([]<>online) => (InQueue(m) ~> ~InQueue(m))
  /\ (<>[](queue = <<>>)) => <>[](\A p \in DOMAIN passes : passes[p].pc # "wait")

\* C30 witness: mutation 1 failed once more than the ceiling allows and was
\* dropped by the pass; the queue is empty and no pass is left.
C30_Witness ==
  /\ queue = <<>>
  /\ passes = <<>>
  /\ created = 1
  /\ requests[1].failed = RetryCeiling + 1
  /\ requests[1].ok = 0

====
